---------------------------- MODULE Spec2Model ----------------------------
(***************************************************************************)
(* A model of generate_html.py (spot-hinta): the script that loads the     *)
(* cached electricity spot prices, refetches them when the cache is        *)
(* missing or stale, builds four PriceTables and writes eight HTML pages.  *)
(*                                                                         *)
(* Representation.                                                         *)
(*  - A startDate string "2025-11-DDTHH:MM:00.000Z" is the record          *)
(*    [day, hour, minute] of its fields (UTC, November 2025).  String      *)
(*    order is the lexicographic order of the fields, the prefix [:13] is  *)
(*    <<day, hour>>.                                                       *)
(*  - A datetime is a number of minutes since 2025-11-01T00:00Z.           *)
(*    Europe/Helsinki is UTC+2 throughout November.                        *)
(*  - A price (a float of snt/kWh) is an integer number of thousandths;    *)
(*    round(price, 2) is an integer number of hundredths.  Rounding is     *)
(*    Python's round-half-even, taken on the exact decimal value.          *)
(*  - The bar scale (a float) is the exact fraction [num, den].            *)
(*  - A bar-graph cell is the sequence of its glyphs.                      *)
(***************************************************************************)
EXTENDS Integers, Sequences, FiniteSets, TLC

VARIABLES
    \* ---- the script run (lines 30-57, 325-359) ----
    now,                        \* line 32
    read_prices_from_internet,  \* line 26 / 40
    data_json,                  \* line 30 / 36 / 48
    data_json_15min,            \* line 31 / 38 / 54
    file_1h,                    \* contents of price_data_latest.json
    file_15min,                 \* contents of price_data_latest_15min.json
    tables,                     \* the four PriceTables of lines 325-328
    html_files,                 \* contents of the eight output files
    pc,                         \* position of the script
    error,                      \* the exception that ended the run, "" if none
    run,                        \* history of the run: see RunHistory
    \* ---- one PriceTable used on its own ----
    tb_args,                    \* the constructor's arguments (and the global now)
    tb_self,                    \* the PriceTable object
    tb_prev,                    \* the object as it was before the last method call
    tb_page,                    \* what the last get_html_page call returned
    tb_pc

vars == <<now, read_prices_from_internet, data_json, data_json_15min, file_1h,
          file_15min, tables, html_files, pc, error, run,
          tb_args, tb_self, tb_prev, tb_page, tb_pc>>

run_vars == <<now, read_prices_from_internet, data_json, data_json_15min, file_1h,
              file_15min, tables, html_files, pc, error, run>>

tb_vars == <<tb_args, tb_self, tb_prev, tb_page, tb_pc>>

---------------------------------------------------------------------------
(* Configuration constants of the script, lines 20-28.                     *)

price_data_filename == "price_data_latest.json"
price_data_filename_15min == "price_data_latest_15min.json"
html_output_filename_prefix == "spot-hintataulukko"
html_output_filename_prefix_15min == "spot-hintataulukko-15min"
html_preview_url_start == "https://raw.githack.com/t-800m101/spot-hinta/refs/heads/main/"
target_bar_max_width == 20
target_bar_max_width_horizontal == 18
show_also_history == FALSE
TzOffsetMinutes == 120
RefreshHour == 14
FreshHorizonHours == 20
SubPricesPerHour == 4
TwoColumnThreshold == 34

---------------------------------------------------------------------------
(* Numbers.                                                                *)

Abs(x) == IF x < 0 THEN -x ELSE x

\* Python's round() of the exact value n/d (d > 0): to the nearest integer,
\* a tie to the even one.
RoundHalfEven(n, d) ==
    LET q == n \div d
        r == n % d
    IN  IF 2 * r < d THEN q
        ELSE IF 2 * r > d THEN q + 1
        ELSE IF q % 2 = 0 THEN q ELSE q + 1

---------------------------------------------------------------------------
(* Python floats.  A price is written in the payload as a decimal number   *)
(* and read as the IEEE 754 double nearest to it, and the arithmetic of    *)
(* lines 100, 125, 129, 139 and 145 rounds every result to a double.  The  *)
(* doubles of a computation are kept exactly here: a positive double is    *)
(* m * 2^e with 2^52 <= m < 2^53, and m is a natural number written in     *)
(* limbs of 14 bits, lowest limb first, without leading zero limbs.        *)

\* The value of an expression that is named once and used several times:
\* the element of a set of one element.
The(S) == CHOOSE v \in S : TRUE

LimbBits == 14
LimbBase == 2^LimbBits
MantissaBits == 53

\* The number of bits of a natural number below 2^30.
BitLength(n) == CHOOSE k \in 0..30 : n < 2^k /\ (k = 0 \/ n >= 2^(k - 1))

\* The limbs without leading zero limbs.
BigTrim(a) ==
    LET set == {i \in 1..Len(a) : a[i] # 0}
    IN  IF set = {} THEN <<>>
        ELSE SubSeq(a, 1, CHOOSE i \in set : \A j \in set : j <= i)

\* The limbs of a natural number below 2^31.
BigOf(n) ==
    BigTrim(<<n % LimbBase, (n \div LimbBase) % LimbBase,
              n \div (LimbBase * LimbBase)>>)

\* The value of a number of at most two limbs.
BigToInt(a) ==
    IF a = <<>> THEN 0
    ELSE IF Len(a) = 1 THEN a[1]
    ELSE a[1] + LimbBase * a[2]

BigBitLength(a) ==
    IF a = <<>> THEN 0 ELSE LimbBits * (Len(a) - 1) + BitLength(a[Len(a)])

BigOdd(a) == a # <<>> /\ a[1] % 2 = 1

\* Bit k of a, the lowest being bit 0.
BigBit(a, k) ==
    LET i == (k \div LimbBits) + 1
    IN  IF i > Len(a) THEN 0 ELSE (a[i] \div 2^(k % LimbBits)) % 2

\* The lowest k bits of a are all zero.
BigLowBitsZero(a, k) ==
    \A i \in 1..Len(a) :
        /\ i <= k \div LimbBits => a[i] = 0
        /\ i = (k \div LimbBits) + 1 => a[i] % 2^(k % LimbBits) = 0

\* a * 2^s and a \div 2^s.
BigShiftLeft(a, s) ==
    LET q == s \div LimbBits
        r == s % LimbBits
        Limb(j) == IF j \in 1..Len(a) THEN a[j] ELSE 0
    IN  BigTrim([i \in 1..(Len(a) + q + 1) |->
                    (Limb(i - q) % 2^(LimbBits - r)) * 2^r
                    + (Limb(i - q - 1) \div 2^(LimbBits - r))])

BigShiftRight(a, s) ==
    LET q == s \div LimbBits
        r == s % LimbBits
        Limb(j) == IF j \in 1..Len(a) THEN a[j] ELSE 0
    IN  BigTrim([i \in 1..(Len(a) - q) |->
                    (Limb(i + q) \div 2^r)
                    + (Limb(i + q + 1) % 2^r) * 2^(LimbBits - r)])

\* The number with the value of the sum of columns[k] * LimbBase^(k - 1),
\* for at most eight columns, each of them any integer of magnitude below
\* 2^30: its lowest eight limbs, and the carry out of the eighth, which is
\* negative exactly when the sum is.
BigNormalise(columns) ==
    LET Col(k) == IF k <= Len(columns) THEN columns[k] ELSE 0
        t1 == Col(1)
        t2 == Col(2) + (t1 \div LimbBase)
        t3 == Col(3) + (t2 \div LimbBase)
        t4 == Col(4) + (t3 \div LimbBase)
        t5 == Col(5) + (t4 \div LimbBase)
        t6 == Col(6) + (t5 \div LimbBase)
        t7 == Col(7) + (t6 \div LimbBase)
        t8 == Col(8) + (t7 \div LimbBase)
    IN  [limbs |-> BigTrim(<<t1 % LimbBase, t2 % LimbBase, t3 % LimbBase,
                             t4 % LimbBase, t5 % LimbBase, t6 % LimbBase,
                             t7 % LimbBase, t8 % LimbBase>>),
         carry |-> t8 \div LimbBase]

\* a + b for a sum of at most eight limbs.
BigAdd(a, b) ==
    BigNormalise([k \in 1..(IF Len(a) > Len(b) THEN Len(a) ELSE Len(b)) |->
                     (IF k <= Len(a) THEN a[k] ELSE 0)
                     + (IF k <= Len(b) THEN b[k] ELSE 0)]).limbs

\* a * b for numbers of at most four limbs each: the sum of the limb
\* products a[i] * b[j] with i + j = k + 1 is column k.
BigMul(a, b) ==
    LET Term(i, k) == IF i \in 1..Len(a) /\ k + 1 - i \in 1..Len(b)
                      THEN a[i] * b[k + 1 - i] ELSE 0
    IN  BigNormalise([k \in 1..(Len(a) + Len(b)) |->
                         Term(1, k) + Term(2, k) + Term(3, k) + Term(4, k)]).limbs

\* What is left of r * LimbBase + x when g * d is taken from it (r has
\* at most as many limbs as d): its limbs, and a carry that is negative
\* exactly when g * d is the larger.
BigDivLeft(r, x, d, g) ==
    BigNormalise([k \in 1..(Len(d) + 1) |->
                     (IF k = 1 THEN x ELSE IF k - 1 <= Len(r) THEN r[k - 1] ELSE 0)
                     - g * (IF k <= Len(d) THEN d[k] ELSE 0)])

\* The highest quotient limb of top, top - 1 and top - 2 that leaves a
\* remainder not negative, with the remainder.
BigDivPick(r, x, d, top) ==
    The({IF first.carry >= 0 THEN [g |-> top, r |-> first.limbs]
         ELSE IF second.carry >= 0 THEN [g |-> top - 1, r |-> second.limbs]
         ELSE [g |-> top - 2, r |-> BigDivLeft(r, x, d, top - 2).limbs] :
         first \in {BigDivLeft(r, x, d, top)},
         second \in {BigDivLeft(r, x, d, top - 1)}})

\* One step of long division: the remainder so far r (r < d) takes the
\* next limb x of the dividend.  d has at most six limbs and its top bit
\* set, so the quotient limb g is at most 2 below its estimate from the top
\* limbs; it is the highest with what is left, r * LimbBase + x - g * d, not
\* negative.
BigDivStep(r, x, d) ==
    LET n == Len(d)
        Limb(j) == IF j = 1 THEN x ELSE IF j - 1 <= Len(r) THEN r[j - 1] ELSE 0
        estimate == (Limb(n + 1) * LimbBase + Limb(n)) \div d[n]
    IN  BigDivPick(r, x, d, IF estimate >= LimbBase THEN LimbBase - 1 ELSE estimate)

\* Long division from limb i of the dividend down; the quotient limbs come
\* highest first.
RECURSIVE BigDivFrom(_, _, _, _)
BigDivFrom(a, d, i, r) ==
    IF i = 0 THEN [q |-> <<>>, r |-> r]
    ELSE The({The({[q |-> <<step.g>> \o rest.q, r |-> rest.r] :
                   rest \in {BigDivFrom(a, d, i - 1, step.r)}}) :
              step \in {BigDivStep(r, a[i], d)}})

\* The quotient of a by d, and whether the division leaves nothing, for d
\* with the top bit of its top limb set.  The limbs of a above the lowest
\* Len(a) - Len(d) + 1 are below d and make the first remainder.
BigDivideNormal(a, d) ==
    LET low == IF Len(a) >= Len(d) THEN Len(a) - Len(d) + 1 ELSE 0
    IN  The({[q |-> BigTrim([k \in 1..low |-> res.q[low + 1 - k]]),
              exact |-> res.r = <<>>] :
             res \in {BigDivFrom(a, d, low, SubSeq(a, low + 1, Len(a)))}})

\* The quotient of a by d (d > 0), and whether the division leaves nothing:
\* both are shifted to set the top bit of d.
BigDivide(a, d) ==
    The({BigDivideNormal(a1, d1) :
         a1 \in {BigShiftLeft(a, LimbBits - BitLength(d[Len(d)]))},
         d1 \in {BigShiftLeft(d, LimbBits - BitLength(d[Len(d)]))}})

\* The double nearest to p * 2^e plus a part below the last bit of p that
\* is not zero exactly when sticky: p keeps its highest 53 bits and is
\* rounded to nearest, a tie to even.  lies tells how the double lies to the
\* value: above it (1), below it (-1) or equal to it (0).
FloatNearest(p, e, sticky) ==
    LET s == BigBitLength(p) - MantissaBits
        m == BigShiftRight(p, s)
        round == s > 0 /\ BigBit(p, s - 1) = 1
        below == sticky \/ (s > 1 /\ ~BigLowBitsZero(p, s - 1))
        up == round /\ (below \/ BigOdd(m))
        next == IF up THEN BigAdd(m, <<1>>) ELSE m
        grown == BigBitLength(next) > MantissaBits
    IN  [m |-> IF grown THEN BigShiftRight(next, 1) ELSE next,
         e |-> IF grown THEN e + s + 1 ELSE e + s,
         lies |-> IF ~round /\ ~below THEN 0 ELSE IF up THEN 1 ELSE -1]

\* The double 0.0.
FloatZero == [m |-> <<>>, e |-> 0, lies |-> 0]

\* The double nearest to n / d (n >= 0, d > 0 as limbs).
FloatDivide(n, d) ==
    IF n = <<>> THEN FloatZero
    ELSE LET s == (MantissaBits + 1) - (BigBitLength(n) - BigBitLength(d))
         IN  The({FloatNearest(res.q, -s, ~res.exact) :
                  res \in {BigDivide(BigShiftLeft(n, s), d)}})

\* The double a decimal literal n / d is read as.
FloatOfRatio(n, d) == The({FloatDivide(a, b) : a \in {BigOf(n)}, b \in {BigOf(d)}})

\* w / x for an integer w >= 0 and a double x > 0.
FloatQuotient(w, x) ==
    IF x.m = <<>> THEN FloatZero
    ELSE The({[m |-> f.m, e |-> f.e - x.e, lies |-> f.lies] :
              f \in {FloatDivide(BigOf(w), x.m)}})

\* x * y for doubles x, y >= 0.
FloatProduct(x, y) ==
    IF x.m = <<>> \/ y.m = <<>> THEN FloatZero
    ELSE The({FloatNearest(p, x.e + y.e, FALSE) : p \in {BigMul(x.m, y.m)}})

\* round(x) for a double 0 <= x < 2^28: the nearest integer, a tie to the
\* even one.
FloatRound(x) ==
    IF x.m = <<>> \/ -x.e > MantissaBits + 1 THEN 0
    ELSE LET s == -x.e
             whole == BigShiftRight(x.m, s)
             round == BigBit(x.m, s - 1) = 1
             below == ~BigLowBitsZero(x.m, s - 1)
         IN  BigToInt(whole) + (IF round /\ (below \/ BigOdd(whole)) THEN 1 ELSE 0)

\* round() of a tie of the third decimal, t thousandths (t >= 0), to
\* hundredths: up when the double read lies above the decimal, down when
\* below, and to the even hundredth when the double is the decimal.
RoundTie(t) ==
    The({IF lies > 0 THEN t \div 10 + 1
         ELSE IF lies < 0 THEN t \div 10
         ELSE IF (t \div 10) % 2 = 0 THEN t \div 10 ELSE t \div 10 + 1 :
         lies \in {FloatOfRatio(t, 1000).lies}})

\* round(price, 2), line 125 and 136: thousandths to hundredths.  Python
\* rounds the double, correctly: a price that is not a tie of the third
\* decimal rounds as its decimal does, and a tie goes the way the double
\* lies to the decimal (2.675 is read as 2.67499999..., 0.005 as
\* 0.00500000...01), to the even hundredth when the double is exact (0.125).
Round2(price) ==
    IF price < 0
    THEN -(IF (-price) % 10 # 5 THEN RoundHalfEven(-price, 10) ELSE RoundTie(-price))
    ELSE IF price % 10 # 5 THEN RoundHalfEven(price, 10) ELSE RoundTie(price)

SeqMax(s) == CHOOSE x \in {s[i] : i \in 1..Len(s)} : \A j \in 1..Len(s) : s[j] <= x
SeqMin(s) == CHOOSE x \in {s[i] : i \in 1..Len(s)} : \A j \in 1..Len(s) : x <= s[j]

\* "x" * n: the empty string for n <= 0.
Repeat(glyph, n) == [i \in 1..n |-> glyph]

---------------------------------------------------------------------------
(* Dates and strings.                                                      *)

\* datetime.strptime(startDate, "%Y-%m-%dT%H:%M:%S.%f%z")
Strptime(startDate) ==
    ((startDate.day - 1) * 24 + startDate.hour) * 60 + startDate.minute

\* The order of two startDate strings (the sort key of lines 81-82).
StartDateLess(a, b) ==
    \/ a.day < b.day
    \/ a.day = b.day /\ a.hour < b.hour
    \/ a.day = b.day /\ a.hour = b.hour /\ a.minute < b.minute

\* datapoint["startDate"][:13]
HourPrefix(startDate) == <<startDate.day, startDate.hour>>

\* timestamp_hour in dp["startDate"]
PrefixIn(timestamp_hour, startDate) == timestamp_hour = HourPrefix(startDate)

\* timestamp.astimezone(tz), as local minutes.
AsTimezone(timestamp) == timestamp + TzOffsetMinutes

\* now.hour (now is a Helsinki datetime).
LocalHour(timestamp) == (AsTimezone(timestamp) % 1440) \div 60

WeekdayName(local) ==
    LET names == <<"Saturday", "Sunday", "Monday", "Tuesday", "Wednesday",
                   "Thursday", "Friday">>
    IN  names[((local \div 1440) % 7) + 1]

\* translate_date_to_finnish, applied to the weekday name (the only part of
\* the string the replacements touch).
translate_date_to_finnish(weekday) ==
    CASE weekday = "Monday" -> "ma"
      [] weekday = "Tuesday" -> "ti"
      [] weekday = "Wednesday" -> "ke"
      [] weekday = "Thursday" -> "to"
      [] weekday = "Friday" -> "pe"
      [] weekday = "Saturday" -> "la"
      [] weekday = "Sunday" -> "su"
      [] OTHER -> weekday

\* The month of a timestamp counted in days from November 1st, and the
\* day in it: November has 30 days, December follows.
DaysInNovember == 30

MonthOf(days) == IF days >= DaysInNovember THEN 12 ELSE 11

DayOfMonth(days) == 1 + (IF days >= DaysInNovember THEN days - DaysInNovember ELSE days)

\* translate_date_to_finnish(timestamp.astimezone(tz).strftime("%A %-d.%-m."))
DateString(timestamp) ==
    LET local == AsTimezone(timestamp)
        days == local \div 1440
    IN  translate_date_to_finnish(WeekdayName(local)) \o " "
        \o ToString(DayOfMonth(days)) \o "." \o ToString(MonthOf(days)) \o "."

Pad2(n) == IF n < 10 THEN "0" \o ToString(n) ELSE ToString(n)

\* timestamp.astimezone(tz).strftime("%H")
HourString(timestamp) == Pad2(LocalHour(timestamp))

\* "{:.2f}".format(round(price, 2)); a negative price that rounds to zero
\* is the float -0.0 and prints its sign.
PriceString(price) ==
    LET c == Abs(Round2(price))
    IN  (IF price < 0 THEN "-" ELSE "") \o ToString(c \div 100) \o "."
        \o Pad2(c % 100)

---------------------------------------------------------------------------
(* sorted(price_data, key=lambda d: d['startDate']): a stable sort.        *)

RECURSIVE InsertSorted(_, _)
InsertSorted(s, d) ==
    IF s = <<>> THEN <<d>>
    ELSE IF StartDateLess(d.startDate, s[Len(s)].startDate)
         THEN Append(InsertSorted(SubSeq(s, 1, Len(s) - 1), d), s[Len(s)])
         ELSE Append(s, d)

RECURSIVE SortedFrom(_, _, _)
SortedFrom(acc, price_data, i) ==
    IF i > Len(price_data) THEN acc
    ELSE SortedFrom(InsertSorted(acc, price_data[i]), price_data, i + 1)

SortedByStartDate(price_data) == SortedFrom(<<>>, price_data, 1)

---------------------------------------------------------------------------
(* class DataColumn, lines 63-74.                                          *)

DataColumn(header, header_css_class, content_css_class) ==
    [header |-> header, header_css_class |-> header_css_class,
     content_css_class |-> content_css_class, data |-> <<>>]

data_length(column) == Len(column.data)

total_length(column) == Len(column.data) + 1

---------------------------------------------------------------------------
(* PriceTable.__init__, lines 80-151.                                      *)

\* The filter of lines 95 and 107; now_ is the global now.
IsShown(datapoint, show_history, now_) ==
    show_history \/ Strptime(datapoint.startDate) >= now_

\* all_prices, lines 92-96.
AllPrices(price_data, show_history, now_) ==
    LET shown == SelectSeq(price_data, LAMBDA d : IsShown(d, show_history, now_))
    IN  [i \in 1..Len(shown) |-> shown[i].price]

\* A variant of MaxPriceError: an empty list accepted (max with a default).
MaxPriceError_Never(all_prices) == ""

\* max(all_prices), line 97: raises ValueError on an empty list.
MaxPriceError(all_prices) == IF all_prices = <<>> THEN "ValueError" ELSE ""

MaxPrice(all_prices) == IF all_prices = <<>> THEN 0 ELSE SeqMax(all_prices)

\* self.__bar_width_per_price, line 100: thousandths per bar position.
BarWidthPerPrice(target_width, max_price) ==
    IF max_price > 0 THEN [num |-> target_width * 1000, den |-> max_price]
    ELSE [num |-> 1, den |-> 1]

\* The double of self.__bar_width_per_price: target_bar_max_width divided
\* by the double of max_price, or the integer 1 (the scale 1 / 1, which no
\* max_price above zero gives: a target width makes num 1000 or more).
ScaleAsFloat(scale) ==
    IF scale.num = 1 /\ scale.den = 1 THEN FloatOfRatio(1, 1)
    ELSE The({FloatQuotient(scale.num \div 1000, x) :
              x \in {FloatOfRatio(scale.den, 1000)}})

\* round(x * self.__bar_width_per_price) with the arithmetic of doubles,
\* for x = h hundredths (h >= 0).
FloatScaledRound(h, scale) ==
    The({FloatRound(p) :
         p \in {FloatProduct(x, y) :
                 x \in {FloatOfRatio(h, 100)}, y \in {ScaleAsFloat(scale)}}})

\* round(x * self.__bar_width_per_price) for x = h hundredths (h >= 0), the
\* scale being num / den bar positions a thousandth.  The product is a
\* double: the rounding errors of its two factors and of the multiplication
\* are far smaller than the distance of an exact product to a half, unless
\* the exact product is a half, and then the double product decides
\* (1.35 * (20.0 / 6.0) is 4.500000000000001 and rounds to 5).
ScaledMagnitude(h, num, den) ==
    IF (2 * h * num) % (100 * den) = 0 /\ ((2 * h * num) \div (100 * den)) % 2 = 1
    THEN FloatScaledRound(h, [num |-> num, den |-> den])
    ELSE RoundHalfEven(h * num, 100 * den)

\* round(x * self.__bar_width_per_price) for x a number of hundredths
\* (lines 129, 139, 145); the double of -x is that of x with the sign.
ScaledRound(hundredths, scale) ==
    The({IF h < 0 THEN -ScaledMagnitude(-h, s.num, s.den)
         ELSE ScaledMagnitude(h, s.num, s.den) :
         h \in {hundredths}, s \in {scale}})

\* A variant of PriceBarWidth: the bar drawn for the magnitude of the price.
PriceBarWidth_Magnitude(price, scale) == ScaledRound(Abs(Round2(price)), scale)

\* price_bar_width, lines 125 and 129.
PriceBarWidth(price, scale) == ScaledRound(Round2(price), scale)

\* A variant of DateCell: the date repeated on every row.
DateCell_Repeated(date_to_show, timestamp_as_string) == timestamp_as_string

\* Lines 110-114: the date cell and the new date_to_show.
DateCell(date_to_show, timestamp_as_string) ==
    IF date_to_show # timestamp_as_string THEN timestamp_as_string ELSE ""

\* Lines 118-122: the hour cell.
HourCell(hour_to_show, hour_as_string) ==
    IF hour_to_show # hour_as_string THEN hour_as_string ELSE ""

\* all_pricepoints_for_this_hour, lines 135-136.
PricepointsForHour(datapoint, price_data_15min) ==
    LET timestamp_hour == HourPrefix(datapoint.startDate)
        points == SelectSeq(price_data_15min,
                            LAMBDA dp : PrefixIn(timestamp_hour, dp.startDate))
    IN  [i \in 1..Len(points) |-> Round2(points[i].price)]

\* price_bar_list[at] = glyph, line 142, with Python's negative indices.
ListSetError(list, at) ==
    IF at >= Len(list) \/ at < -Len(list) THEN "IndexError" ELSE ""

ListSet(list, at, glyph) ==
    LET pos == IF at >= 0 THEN at + 1 ELSE Len(list) + at + 1
    IN  [i \in 1..Len(list) |-> IF i = pos THEN glyph ELSE list[i]]

\* The padding character of line 147, the figure space, by its code point.
FigureSpace == "U+2007"

\* Lines 141-147: the two markers put at their positions.
OverlayAt(price_bar, min_price_indicator_at, max_price_indicator_at) ==
    LET set_min == min_price_indicator_at < Len(price_bar)
        err == IF set_min THEN ListSetError(price_bar, min_price_indicator_at)
               ELSE ""
        with_min == IF set_min /\ err = ""
                    THEN ListSet(price_bar, min_price_indicator_at, "▜")
                    ELSE price_bar
        with_max == IF max_price_indicator_at > Len(with_min)
                    THEN with_min
                         \o Repeat(FigureSpace, max_price_indicator_at - Len(with_min) - 1)
                         \o <<"▗">>
                    ELSE with_min
    IN  [error |-> err, bar |-> IF err = "" THEN with_max ELSE price_bar]

\* Lines 138-147: the markers of the lowest and the highest 15 min price.
MinMaxOverlay(price_bar, pricepoints, scale) ==
    OverlayAt(price_bar, ScaledRound(SeqMin(pricepoints), scale),
              ScaledRound(SeqMax(pricepoints), scale))

\* A variant of SubPriceCountError: fewer than four records accepted.
SubPriceCountError_AtMost(pricepoints) ==
    IF Len(pricepoints) <= SubPricesPerHour THEN "" ELSE "AssertionError"

\* The assertion of line 137.
SubPriceCountError(pricepoints) ==
    IF Len(pricepoints) = SubPricesPerHour THEN "" ELSE "AssertionError"

\* Lines 130-150: the bar-graph cell for a bar width and the 15 min prices
\* of the hour.
BarOfWidth(price_bar_width, pricepoints, scale, show_15_min_prices) ==
    IF price_bar_width >= 0
    THEN IF show_15_min_prices
         THEN [error |-> "", bar |-> Repeat("▉", price_bar_width)]
         ELSE IF SubPriceCountError(pricepoints) # ""
              THEN [error |-> SubPriceCountError(pricepoints),
                    bar |-> Repeat("▉", price_bar_width)]
              ELSE MinMaxOverlay(Repeat("▉", price_bar_width), pricepoints, scale)
    ELSE [error |-> "", bar |-> <<"◁">>]

\* Lines 128-150: the bar-graph cell of one shown record.
BarCell(datapoint, scale, price_data_15min, show_15_min_prices) ==
    BarOfWidth(PriceBarWidth(datapoint.price, scale),
               PricepointsForHour(datapoint, price_data_15min),
               scale, show_15_min_prices)

\* Lines 106-150: what one pass leaves, given the bar-graph cell of the
\* record and whether a cell without exception is appended.
RowWith(acc, datapoint, cell, appended) ==
    LET timestamp == Strptime(datapoint.startDate)
        timestamp_as_string == DateString(timestamp)
        hour_as_string == HourString(timestamp)
    IN  [date_to_show |-> timestamp_as_string,
         hour_to_show |-> hour_as_string,
         date |-> Append(acc.date, DateCell(acc.date_to_show, timestamp_as_string)),
         hour |-> Append(acc.hour, HourCell(acc.hour_to_show, hour_as_string)),
         price |-> Append(acc.price, PriceString(datapoint.price)),
         bar |-> IF cell.error = "" /\ appended
                 THEN Append(acc.bar, cell.bar) ELSE acc.bar,
         error |-> cell.error]

\* A variant of CollectRow: the else branch of line 149 left out, so that a
\* row of negative bar width gets no bar-graph cell.
CollectRow_NoMarker(acc, datapoint, scale, price_data_15min, show_15_min_prices) ==
    RowWith(acc, datapoint,
            BarCell(datapoint, scale, price_data_15min, show_15_min_prices),
            PriceBarWidth(datapoint.price, scale) >= 0)

\* One pass of the loop of lines 105-150 over a shown record.
CollectRow(acc, datapoint, scale, price_data_15min, show_15_min_prices) ==
    RowWith(acc, datapoint,
            BarCell(datapoint, scale, price_data_15min, show_15_min_prices), TRUE)

\* The cells one field of the passes 1..last added, in row order.
Gathered(passes, last, field) ==
    LET added == SelectSeq([k \in 1..last |-> k], LAMBDA k : passes[k][field] # <<>>)
    IN  [j \in 1..Len(added) |-> passes[added[j]][field][1]]

\* What the loop leaves after the passes taken: the cells of the passes up
\* to the first that raised put after those collected before.
Joined(acc, passes) ==
    LET raised == {k \in 1..Len(passes) : passes[k].error # ""}
        last == IF raised = {} THEN Len(passes)
                ELSE CHOOSE k \in raised : \A j \in raised : k <= j
    IN  [date_to_show |-> passes[last].date_to_show,
         hour_to_show |-> passes[last].hour_to_show,
         date |-> acc.date \o Gathered(passes, last, "date"),
         hour |-> acc.hour \o Gathered(passes, last, "hour"),
         price |-> acc.price \o Gathered(passes, last, "price"),
         bar |-> acc.bar \o Gathered(passes, last, "bar"),
         error |-> passes[last].error]

\* The loop of lines 105-150 from record i on; it stops at the first
\* exception.  A pass reads of what the earlier passes left only
\* date_to_show and hour_to_show, which the pass over the shown record
\* before it has set, so each pass is taken on its own from these two.
CollectFrom(acc, price_data, i, scale, price_data_15min, show_15_min_prices, show_history, now_) ==
    LET rest == SelectSeq(SubSeq(price_data, i, Len(price_data)),
                          LAMBDA d : IsShown(d, show_history, now_))
        Before(k) ==
            [date_to_show |-> IF k = 1 THEN acc.date_to_show
                              ELSE DateString(Strptime(rest[k - 1].startDate)),
             hour_to_show |-> IF k = 1 THEN acc.hour_to_show
                              ELSE HourString(Strptime(rest[k - 1].startDate)),
             date |-> <<>>, hour |-> <<>>, price |-> <<>>, bar |-> <<>>,
             error |-> ""]
    IN  IF acc.error # "" \/ rest = <<>> THEN acc
        ELSE Joined(acc, <<>> \o [k \in 1..Len(rest) |->
                            CollectRow(Before(k), rest[k], scale, price_data_15min,
                                       show_15_min_prices)])

\* has_two_columns, line 151.
HasTwoColumns(date_column) == data_length(date_column) > TwoColumnThreshold

\* The object the constructor leaves, lines 81-88 and 151, given what the
\* loop of lines 105-150 collected.  error is the exception the constructor
\* raised ("" when it returned).
TableWith(acc, used, show_15_min_prices, max_price, scale) ==
    LET date_column == [DataColumn("Päivä", "date", "date") EXCEPT !.data = acc.date]
    IN  [error |-> acc.error,
         price_data |-> used,
         show_15_min_prices |-> show_15_min_prices,
         date_column |-> date_column,
         hour_column |-> [DataColumn("Tunti", "hour", "hour") EXCEPT !.data = acc.hour],
         price_column |-> [DataColumn("Hinta", "price", "price")
                              EXCEPT !.data = acc.price],
         bar_graph_column |-> [DataColumn("(snt/kWh, sis. alv)", "bargraph", "bargraph")
                                  EXCEPT !.data = acc.bar],
         max_price |-> max_price,
         bar_width_per_price |-> scale,
         has_two_columns |-> HasTwoColumns(date_column)]

\* PriceTable(price_data, target_bar_max_width, show_also_history,
\*            price_data_15min, show_15_min_prices), with the global now.
PriceTable(price_data, target_width, show_history, price_data_15min, show_15_min_prices, now_) ==
    LET price_data_1h == SortedByStartDate(price_data)
        sorted_15min == SortedByStartDate(price_data_15min)
        used == IF show_15_min_prices THEN sorted_15min ELSE price_data_1h
        all_prices == AllPrices(used, show_history, now_)
        max_price == MaxPrice(all_prices)
        scale == BarWidthPerPrice(target_width, max_price)
        start == [date_to_show |-> "", hour_to_show |-> "", date |-> <<>>,
                  hour |-> <<>>, price |-> <<>>, bar |-> <<>>,
                  error |-> MaxPriceError(all_prices)]
    IN  TableWith(CollectFrom(start, used, 1, scale, sorted_15min,
                              show_15_min_prices, show_history, now_),
                  used, show_15_min_prices, max_price, scale)

---------------------------------------------------------------------------
(* PriceTable.length, lines 153-155.                                       *)

\* The assertion of line 154.
LengthError(self) ==
    IF /\ data_length(self.date_column) = data_length(self.hour_column)
       /\ data_length(self.hour_column) = data_length(self.price_column)
       /\ data_length(self.price_column) = data_length(self.bar_graph_column)
    THEN "" ELSE "AssertionError"

length(self) == data_length(self.date_column)

---------------------------------------------------------------------------
(* PriceTable.get_html_table_vertical, lines 157-191.  The markup is kept  *)
(* as its structure: the header cells and, per <tr>, the <td> groups in    *)
(* the order they are written.  A group made from table row i carries      *)
(* index i (0-based, as in the code); the empty group of line 182 carries  *)
(* index -1 and, not being an f-string, its class text unformatted.        *)

\* A variant of Col1Len: the remainder of line 162 left out.
Col1Len_Floor(table_len, has_two_columns) ==
    IF has_two_columns THEN table_len \div 2 ELSE table_len

\* col1_len, lines 161-166.
Col1Len(table_len, has_two_columns) ==
    IF has_two_columns THEN (table_len \div 2) + (table_len % 2) ELSE table_len

\* col2_len, lines 161-166.
Col2Len(table_len, has_two_columns) ==
    table_len - Col1Len(table_len, has_two_columns)

\* The four <th> of line 169 (and again of line 171).
HeaderCells(self) ==
    << <<self.date_column.header_css_class, self.date_column.header>>,
       <<self.hour_column.header_css_class, self.hour_column.header>>,
       <<self.price_column.header_css_class, self.price_column.header>>,
       <<self.bar_graph_column.header_css_class, self.bar_graph_column.header>> >>

\* The four <td> of lines 178 and 180 for index i.
DataCells(self, i) ==
    [index |-> i,
     classes |-> <<self.date_column.content_css_class,
                   self.hour_column.content_css_class,
                   self.price_column.content_css_class,
                   self.bar_graph_column.content_css_class>>,
     cells |-> <<self.date_column.data[i + 1], self.hour_column.data[i + 1],
                 self.price_column.data[i + 1], self.bar_graph_column.data[i + 1]>>]

\* The four empty <td> of line 182.
EmptyCells ==
    [index |-> -1,
     classes |-> <<"{self.date_column.content_css_class}",
                   "{self.hour_column.content_css_class}",
                   "{self.price_column.content_css_class}",
                   "{self.bar_graph_column.content_css_class}">>,
     cells |-> <<"", "", "", <<>> >>]

\* One <tr> of lines 174-189.
TableRow(self, i_row, table_len, col1_len, swap_columns) ==
    LET i1 == i_row
        i2 == i1 + col1_len
        first_cell == DataCells(self, i1)
        second_cell == IF i2 < table_len THEN DataCells(self, i2) ELSE EmptyCells
    IN  IF ~swap_columns \/ ~self.has_two_columns
        THEN <<first_cell, second_cell>>
        ELSE <<second_cell, first_cell>>

get_html_table_vertical(self, swap_columns) ==
    LET table_len == length(self)
        col1_len == Col1Len(table_len, self.has_two_columns)
        col2_len == Col2Len(table_len, self.has_two_columns)
        err == IF LengthError(self) # "" THEN LengthError(self)
               ELSE IF table_len > 0 THEN "" ELSE "AssertionError"
    IN  [error |-> err,
         headers |-> IF err # "" THEN <<>>
                     ELSE IF col2_len > 0 THEN HeaderCells(self) \o HeaderCells(self)
                     ELSE HeaderCells(self),
         rows |-> IF err # "" THEN <<>>
                  ELSE [r \in 1..col1_len |->
                          TableRow(self, r - 1, table_len, col1_len, swap_columns)]]

---------------------------------------------------------------------------
(* PriceTable.get_html_page, lines 193-323.                                *)

\* A variant of WithHeaders: the horizontal branch assigning the hour
\* column's header instead of the price column's.
WithHeaders_WrongColumn(self, orientation) ==
    IF orientation = "vertical"
    THEN [self EXCEPT !.price_column.header = "Hinta",
                      !.bar_graph_column.header = "(snt/kWh, sis. alv)"]
    ELSE [self EXCEPT !.hour_column.header = "",
                      !.bar_graph_column.header = "Hinta<br>(snt/kWh,<br>sis. alv)"]

\* Lines 194-199: the headers the call assigns.
WithHeaders(self, orientation) ==
    IF orientation = "vertical"
    THEN [self EXCEPT !.price_column.header = "Hinta",
                      !.bar_graph_column.header = "(snt/kWh, sis. alv)"]
    ELSE [self EXCEPT !.price_column.header = "",
                      !.bar_graph_column.header = "Hinta<br>(snt/kWh,<br>sis. alv)"]

\* Lines 201-204.
FontSize(self, orientation) ==
    IF self.has_two_columns
    THEN (IF orientation = "vertical" THEN "1.15" ELSE "1.10")
    ELSE "1.7"

\* Lines 307-322: the three links of the footer.
FooterLinks(self, current_layout_suffix, next_layout_suffix) ==
    LET own == IF self.show_15_min_prices THEN html_output_filename_prefix_15min
               ELSE html_output_filename_prefix
        other == IF self.show_15_min_prices THEN html_output_filename_prefix
                 ELSE html_output_filename_prefix_15min
    IN  << html_preview_url_start \o own \o next_layout_suffix \o ".html",
           html_preview_url_start \o own \o current_layout_suffix \o ".html",
           html_preview_url_start \o other \o current_layout_suffix \o ".html" >>

\* The call returns the page and leaves the object as self.
get_html_page(self, current_layout_suffix, next_layout_suffix, orientation, color_theme) ==
    LET after == WithHeaders(self, orientation)
        table == get_html_table_vertical(after, orientation # "vertical")
    IN  [self |-> after,
         error |-> table.error,
         page |-> [writing_mode |-> IF orientation # "vertical" THEN "sideways-lr"
                                    ELSE "",
                   background |-> IF color_theme = "light" THEN "#f9f9f9" ELSE "black",
                   font_size |-> FontSize(after, orientation)
                                 \o (IF orientation = "vertical" THEN "vh" ELSE "vw"),
                   table |-> table,
                   links |-> FooterLinks(after, current_layout_suffix,
                                         next_layout_suffix)]]

---------------------------------------------------------------------------
(* The price feed: the payloads {"prices": [{"price", "startDate"}, ...]}  *)
(* the tables are built from.  The feed lists the newest record first.     *)

MaxHours == 2       \* hours in a short payload
LongFrom == 33      \* fewest records of a long payload
MaxRows == 41       \* most records of a long payload

Prices == {-2500, -120, 0, 2400, 10000}

\* The 15 min prices of an hour, as offsets from the hourly price.
Spreads == { <<0, 0, 0, 0>>, <<-1500, 500, -500, 1500>>, <<-6000, 0, 0, 6000>> }

\* What the 15 min payload holds for the newest hour: its four records, one
\* record too few, or one record twice.
QuarterShapes ==
    {[spread |-> sp, newest |-> "four"] : sp \in Spreads}
    \cup {[spread |-> <<-1500, 500, -500, 1500>>, newest |-> d] : d \in {"three", "five"}}

LongPatterns == { <<2400>>, <<10000, -2500, 0>> }

\* The startDate string of a datetime.
StartDate(timestamp) ==
    [day |-> 1 + (timestamp \div 1440), hour |-> (timestamp % 1440) \div 60,
     minute |-> timestamp % 60]

Datapoint(timestamp, price) == [startDate |-> StartDate(timestamp), price |-> price]

Reversed(s) == [i \in 1..Len(s) |-> s[Len(s) + 1 - i]]

\* Hourly records for the hours first, first + 1h, ..., newest first.
HourlyPayload(first, prices) ==
    Reversed([k \in 1..Len(prices) |-> Datapoint(first + 60 * (k - 1), prices[k])])

\* The 15 min records of those hours, newest first.
QuarterPayload(first, prices, shape) ==
    LET n == Len(prices)
        all == [j \in 1..(4 * n) |->
                  Datapoint(first + 15 * (j - 1),
                            prices[((j - 1) \div 4) + 1] + shape.spread[((j - 1) % 4) + 1])]
        kept == CASE shape.newest = "three" -> SubSeq(all, 1, 4 * n - 1)
                  [] shape.newest = "five" -> Append(all, all[4 * n])
                  [] OTHER -> all
    IN  Reversed(kept)

\* A long run of records every step minutes, priced by a repeating pattern.
PatternPayload(first, step, count, pattern) ==
    Reversed([k \in 1..count |->
                Datapoint(first + step * (k - 1), pattern[((k - 1) % Len(pattern)) + 1])])

\* 2025-11-03T22:00Z, midnight of November 4th in Helsinki: the hour before
\* it is history and lies on the previous local date.
TableNow == ((2 * 24) + 22) * 60

ShortArgs ==
    {[price_data |-> HourlyPayload(TableNow - 60, ps),
      price_data_15min |-> QuarterPayload(TableNow - 60, ps, shape),
      target_bar_max_width |-> w, show_also_history |-> h,
      show_15_min_prices |-> q, now |-> TableNow] :
        ps \in UNION {[1..n -> Prices] : n \in 1..MaxHours},
        shape \in QuarterShapes,
        w \in {target_bar_max_width, target_bar_max_width_horizontal},
        h \in BOOLEAN, q \in BOOLEAN}

\* Long 15 min payloads (the hourly payload is not read by a 15 min table
\* beyond being sorted).
LongArgs ==
    {[price_data |-> HourlyPayload(TableNow, <<2400>>),
      price_data_15min |-> PatternPayload(TableNow, 15, n, pat),
      target_bar_max_width |-> w,
      show_also_history |-> show_also_history,
      show_15_min_prices |-> TRUE, now |-> TableNow] :
        n \in LongFrom..MaxRows, pat \in LongPatterns,
        w \in {target_bar_max_width, target_bar_max_width_horizontal}}

\* 2025-11-30T21:00Z, 23:00 of the last day of November in Helsinki.
MonthEndNow == ((29 * 24) + 21) * 60

\* Payloads with prices that are ties of the third decimal (2.675, 0.005,
\* -0.005, 1.005, 0.125), with bars that are ties of a half position
\* (1.35 and 0.15 on a scale of 20 / 6, 0.15 on a scale of 20 / 0.24), and
\* with records on both sides of the end of the month.
EdgePayloads ==
    { [now |-> TableNow,
       price_data |-> HourlyPayload(TableNow, <<2400, 2400>>),
       price_data_15min |-> PatternPayload(TableNow, 15, 8,
                                <<2675, 10000, 5, -5, 1005, 125, 2400, 2400>>)],
      [now |-> TableNow,
       price_data |-> HourlyPayload(TableNow, <<2400>>),
       price_data_15min |-> PatternPayload(TableNow, 15, 4, <<6000, 1350, 240, 150>>)],
      [now |-> TableNow,
       price_data |-> HourlyPayload(TableNow, <<6000>>),
       price_data_15min |-> PatternPayload(TableNow, 15, 4, <<1350, 6000, 6000, 6000>>)],
      [now |-> TableNow,
       price_data |-> HourlyPayload(TableNow, <<240>>),
       price_data_15min |-> PatternPayload(TableNow, 15, 4, <<150, 240, 240, 240>>)],
      [now |-> MonthEndNow,
       price_data |-> HourlyPayload(MonthEndNow, <<2400, 10000>>),
       price_data_15min |-> PatternPayload(MonthEndNow, 15, 8,
                                <<2400, 2400, 2400, 2400, 10000, 10000, 10000, 10000>>)] }

EdgeArgs ==
    {[price_data |-> p.price_data, price_data_15min |-> p.price_data_15min,
      target_bar_max_width |-> w, show_also_history |-> show_also_history,
      show_15_min_prices |-> q, now |-> p.now] :
        p \in EdgePayloads,
        w \in {target_bar_max_width, target_bar_max_width_horizontal},
        q \in BOOLEAN}

---------------------------------------------------------------------------
(* A PriceTable on its own: constructed from arguments, then rendered.     *)

NoValue == [error |-> "none"]

\* The suffixes the script passes for an orientation and theme, lines 335-359.
LayoutSuffixes(orientation, color_theme) ==
    CASE orientation = "vertical" /\ color_theme = "light" -> <<"", "_tumma">>
      [] orientation = "vertical" /\ color_theme = "dark" -> <<"_tumma", "_vaaka_tumma">>
      [] orientation # "vertical" /\ color_theme = "dark" -> <<"_vaaka_tumma", "_vaaka">>
      [] OTHER -> <<"_vaaka", "">>

IdleRun ==
    /\ now = TableNow
    /\ read_prices_from_internet = FALSE
    /\ data_json = NoValue
    /\ data_json_15min = NoValue
    /\ file_1h = NoValue
    /\ file_15min = NoValue
    /\ tables = <<>>
    /\ html_files = <<>>
    /\ pc = "idle"
    /\ error = ""
    /\ run = NoValue

TableInit ==
    /\ IdleRun
    /\ tb_args \in ShortArgs \cup LongArgs \cup EdgeArgs
    /\ tb_self = NoValue
    /\ tb_prev = NoValue
    /\ tb_page = NoValue
    /\ tb_pc = "args"

\* PriceTable(...): lines 80-151.
Construct ==
    /\ tb_pc = "args"
    /\ tb_self' = PriceTable(tb_args.price_data, tb_args.target_bar_max_width,
                             tb_args.show_also_history, tb_args.price_data_15min,
                             tb_args.show_15_min_prices, tb_args.now)
    /\ tb_pc' = IF tb_self'.error = "" THEN "table" ELSE "raised"
    /\ UNCHANGED <<tb_args, tb_prev, tb_page>>
    /\ UNCHANGED run_vars

\* table.get_html_page(...): lines 193-323.
CallGetHtmlPage ==
    /\ tb_pc \in {"table", "page"}
    /\ \E orientation \in {"vertical", "horizontal"}, color_theme \in {"light", "dark"} :
        LET sfx == LayoutSuffixes(orientation, color_theme)
            res == get_html_page(tb_self, sfx[1], sfx[2], orientation, color_theme)
        IN  /\ tb_prev' = tb_self
            /\ tb_self' = res.self
            /\ tb_page' = [error |-> res.error, orientation |-> orientation,
                           color_theme |-> color_theme, page |-> res.page]
            /\ tb_pc' = "page"
    /\ UNCHANGED tb_args
    /\ UNCHANGED run_vars

TableNext == Construct \/ CallGetHtmlPage

SpecTable == TableInit /\ [][TableNext]_vars

---------------------------------------------------------------------------
(* The script: lines 20-57 and 325-359, run once per invocation.           *)

MaxRuns == 3        \* invocations of the script in one behaviour

\* Hours between two invocations.
ClockSteps == {1, 3}

\* The first invocation: 10:00 or 13:00 Helsinki time on November 3rd.
FirstRunTimes == {((2 * 24) + 8) * 60, ((2 * 24) + 11) * 60}

\* A file that holds the JSON payload {"prices": prices}.
JsonFile(prices) == [state |-> "json", prices |-> prices]
AbsentFile == [state |-> "absent", prices |-> <<>>]
CorruptFile == [state |-> "corrupt", prices |-> <<>>]

\* A file that holds {"prices": []}, a payload without a record.
EmptyFile == JsonFile(<<>>)

\* json.load(open(file)): lines 35-38 raise for a missing or corrupt file.
Readable(file) == file.state = "json"

\* What the hourly endpoint answers at a time: the hour before, the hour
\* itself and the next hour, and with far also the hour 21 hours ahead.
FeedHourly(at, far) ==
    LET near == <<Datapoint(at + 60, 2400), Datapoint(at, 10000),
                  Datapoint(at - 60, 5000)>>
    IN  IF far THEN <<Datapoint(at + 21 * 60, 7500)>> \o near ELSE near

\* What the 15 min endpoint answers: the four quarters of every hour of the
\* hourly answer, or with short the newest quarter missing.
FeedQuarter(hourly, short) ==
    LET n == Len(hourly)
        all == [j \in 1..(4 * n) |->
                  Datapoint(Strptime(hourly[((j - 1) \div 4) + 1].startDate)
                                + 15 * (3 - ((j - 1) % 4)),
                            hourly[((j - 1) \div 4) + 1].price)]
    IN  IF short THEN SubSeq(all, 2, 4 * n) ELSE all

EightFiles == 1..8

\* The eight page writes of lines 335-359: the file, the table (its position
\* in lines 325-328) and the arguments of get_html_page.
PageCalls ==
    << [file |-> html_output_filename_prefix \o ".html", table |-> 1,
        current |-> "", next |-> "_tumma", orientation |-> "vertical",
        color_theme |-> "light"],
       [file |-> html_output_filename_prefix \o "_tumma.html", table |-> 1,
        current |-> "_tumma", next |-> "_vaaka_tumma", orientation |-> "vertical",
        color_theme |-> "dark"],
       [file |-> html_output_filename_prefix \o "_vaaka_tumma.html", table |-> 2,
        current |-> "_vaaka_tumma", next |-> "_vaaka", orientation |-> "horizontal",
        color_theme |-> "dark"],
       [file |-> html_output_filename_prefix \o "_vaaka.html", table |-> 2,
        current |-> "_vaaka", next |-> "", orientation |-> "horizontal",
        color_theme |-> "light"],
       [file |-> html_output_filename_prefix_15min \o ".html", table |-> 3,
        current |-> "", next |-> "_tumma", orientation |-> "vertical",
        color_theme |-> "light"],
       [file |-> html_output_filename_prefix_15min \o "_tumma.html", table |-> 3,
        current |-> "_tumma", next |-> "_vaaka_tumma", orientation |-> "vertical",
        color_theme |-> "dark"],
       [file |-> html_output_filename_prefix_15min \o "_vaaka_tumma.html", table |-> 4,
        current |-> "_vaaka_tumma", next |-> "_vaaka", orientation |-> "horizontal",
        color_theme |-> "dark"],
       [file |-> html_output_filename_prefix_15min \o "_vaaka.html", table |-> 4,
        current |-> "_vaaka", next |-> "", orientation |-> "horizontal",
        color_theme |-> "light"] >>

\* The arguments of the four constructor calls of lines 325-328.
TableCalls ==
    << [width |-> target_bar_max_width, show_15_min_prices |-> FALSE],
       [width |-> target_bar_max_width_horizontal, show_15_min_prices |-> FALSE],
       [width |-> target_bar_max_width, show_15_min_prices |-> TRUE],
       [width |-> target_bar_max_width_horizontal, show_15_min_prices |-> TRUE] >>

\* What a run has done so far (kept for the properties, not read by the
\* script): the invocation's number, the cache and output files as the run
\* found them, the GET requests sent, the cache files written, the output
\* files opened for writing and those written; and, across runs, the number
\* of the invocation that last wrote each cache file.
RunHistory(number, files, pages, source) ==
    [number |-> number, cache_at_start |-> files, html_at_start |-> pages,
     gets |-> [v1 |-> 0, v2 |-> 0], cache_written |-> {},
     opened |-> {}, written |-> {}, source |-> source]

IdleTable ==
    /\ tb_args = NoValue
    /\ tb_self = NoValue
    /\ tb_prev = NoValue
    /\ tb_page = NoValue
    /\ tb_pc = "unused"

\* Lines 20-32 of the first invocation, on a machine without output files,
\* each cache file missing, corrupt or holding a payload without a record.
Init ==
    /\ now \in FirstRunTimes
    /\ read_prices_from_internet = FALSE
    /\ data_json = NoValue
    /\ data_json_15min = NoValue
    /\ file_1h \in {AbsentFile, CorruptFile, EmptyFile}
    /\ file_15min \in {AbsentFile, CorruptFile, EmptyFile}
    /\ tables = <<>>
    /\ html_files = [k \in EightFiles |-> NoValue]
    /\ pc = "load"
    /\ error = ""
    /\ run = RunHistory(1, <<file_1h, file_15min>>, html_files, [h |-> 0, q |-> 0])
    /\ IdleTable

\* The next invocation, some hours later: lines 20-32.
StartRun ==
    /\ pc \in {"done", "aborted"}
    /\ run.number < MaxRuns
    /\ \E d \in ClockSteps : now' = now + 60 * d
    /\ read_prices_from_internet' = FALSE
    /\ data_json' = NoValue
    /\ data_json_15min' = NoValue
    /\ tables' = <<>>
    /\ pc' = "load"
    /\ error' = ""
    /\ run' = RunHistory(run.number + 1, <<file_1h, file_15min>>, html_files,
                         run.source)
    /\ UNCHANGED <<file_1h, file_15min, html_files>>
    /\ UNCHANGED tb_vars

\* Lines 34-40: both files are read; the first that cannot be ends the try
\* block and sets read_prices_from_internet.
LoadCache ==
    /\ pc = "load"
    /\ data_json' = IF Readable(file_1h) THEN [prices |-> file_1h.prices]
                    ELSE data_json
    /\ data_json_15min' = IF Readable(file_1h) /\ Readable(file_15min)
                          THEN [prices |-> file_15min.prices]
                          ELSE data_json_15min
    /\ read_prices_from_internet' = ~(Readable(file_1h) /\ Readable(file_15min))
    /\ pc' = "decide"
    /\ UNCHANGED <<now, file_1h, file_15min, tables, html_files, error, run>>
    /\ UNCHANGED tb_vars

\* A variant of CacheIsStale: a horizon of exactly 20 hours counted as stale.
CacheIsStale_Inclusive(json, now_) ==
    /\ LocalHour(now_) >= RefreshHour
    /\ Strptime(json.prices[1].startDate) - now_ <= FreshHorizonHours * 60

\* The second operand of the condition of line 44.
CacheIsStale(json, now_) ==
    /\ LocalHour(now_) >= RefreshHour
    /\ Strptime(json.prices[1].startDate) - now_ < FreshHorizonHours * 60

\* The condition of line 44.
MustFetch(read_from_internet, json, now_) ==
    read_from_internet \/ CacheIsStale(json, now_)

\* data_json["prices"][0] of line 44: the second operand is evaluated when
\* the files were read and the local hour is at least 14, and its subscript
\* raises for a payload without a record.
FirstRecordError(read_from_internet, json, now_) ==
    IF /\ ~read_from_internet
       /\ LocalHour(now_) >= RefreshHour
       /\ json.prices = <<>>
    THEN "IndexError" ELSE ""

\* Line 44: the condition raises and the run ends, or it chooses between
\* the requests of lines 45-57 and the tables of line 325.
DecideFetch ==
    /\ pc = "decide"
    /\ error' = FirstRecordError(read_prices_from_internet, data_json, now)
    /\ pc' = IF error' # "" THEN "aborted"
             ELSE IF MustFetch(read_prices_from_internet, data_json, now)
                  THEN "fetch_1h" ELSE "build"
    /\ UNCHANGED <<now, read_prices_from_internet, data_json, data_json_15min,
                   file_1h, file_15min, tables, html_files, run>>
    /\ UNCHANGED tb_vars

\* Lines 46-50: GET v1/latest-prices.json, the assertion on r.ok, and the
\* response body written to the hourly cache file.
FetchHourly ==
    /\ pc = "fetch_1h"
    /\ \E ok \in BOOLEAN, far \in BOOLEAN :
        IF ok
        THEN /\ data_json' = [prices |-> FeedHourly(now, far)]
             /\ file_1h' = JsonFile(FeedHourly(now, far))
             /\ pc' = "fetch_15min"
             /\ error' = error
             /\ run' = [run EXCEPT !.gets.v1 = @ + 1,
                                   !.cache_written = @ \cup {price_data_filename},
                                   !.source.h = run.number]
        ELSE /\ pc' = "aborted"
             /\ error' = "AssertionError"
             /\ run' = [run EXCEPT !.gets.v1 = @ + 1]
             /\ UNCHANGED <<data_json, file_1h>>
    /\ UNCHANGED <<now, read_prices_from_internet, data_json_15min, file_15min,
                   tables, html_files>>
    /\ UNCHANGED tb_vars

\* Lines 52-57: GET v2/latest-prices.json, the assertion on r.ok, and the
\* response body written to the 15 min cache file.
FetchQuarter ==
    /\ pc = "fetch_15min"
    /\ \E ok \in BOOLEAN, short \in BOOLEAN :
        IF ok
        THEN /\ data_json_15min' = [prices |-> FeedQuarter(data_json.prices, short)]
             /\ file_15min' = JsonFile(FeedQuarter(data_json.prices, short))
             /\ pc' = "build"
             /\ error' = error
             /\ run' = [run EXCEPT !.gets.v2 = @ + 1,
                                   !.cache_written = @ \cup {price_data_filename_15min},
                                   !.source.q = run.number]
        ELSE /\ pc' = "aborted"
             /\ error' = "AssertionError"
             /\ run' = [run EXCEPT !.gets.v2 = @ + 1]
             /\ UNCHANGED <<data_json_15min, file_15min>>
    /\ UNCHANGED <<now, read_prices_from_internet, data_json, file_1h, tables,
                   html_files>>
    /\ UNCHANGED tb_vars

\* The four tables of lines 325-328, each as constructed.
BuiltTables(json, json_15min, now_) ==
    LET Table(k) == PriceTable(json.prices, TableCalls[k].width, show_also_history,
                               json_15min.prices, TableCalls[k].show_15_min_prices,
                               now_)
    IN  <<Table(1), Table(2), Table(3), Table(4)>>

\* The exception of the first constructor call that raises, "" if none does.
FirstError(built) ==
    IF \A k \in 1..Len(built) : built[k].error = "" THEN ""
    ELSE built[CHOOSE k \in 1..Len(built) :
                  /\ built[k].error # ""
                  /\ \A j \in 1..(k - 1) : built[j].error = ""].error

\* The script after the four constructor calls: at line 335 with the four
\* tables, or ended by the first exception.
Built(built) ==
    /\ error' = FirstError(built)
    /\ tables' = IF FirstError(built) = "" THEN built ELSE <<>>
    /\ pc' = IF FirstError(built) = "" THEN "write" ELSE "aborted"

\* Lines 325-328.
BuildTables ==
    /\ pc = "build"
    /\ Built(BuiltTables(data_json, data_json_15min, now))
    /\ UNCHANGED <<now, read_prices_from_internet, data_json, data_json_15min,
                   file_1h, file_15min, html_files, run>>
    /\ UNCHANGED tb_vars

TruncatedFile == [error |-> "truncated"]

\* One of the eight with-blocks of lines 335-359: the file is opened for
\* writing (and so emptied), the page is rendered, and written.
WritePage ==
    /\ pc = "write"
    /\ LET k == Cardinality(run.opened) + 1
           call == PageCalls[k]
           res == get_html_page(tables[call.table], call.current, call.next,
                                call.orientation, call.color_theme)
       IN  /\ tables' = [tables EXCEPT ![call.table] = res.self]
           /\ error' = res.error
           /\ html_files' = [html_files EXCEPT
                               ![k] = IF res.error = "" THEN res.page
                                      ELSE TruncatedFile]
           /\ run' = [run EXCEPT
                        !.opened = @ \cup {call.file},
                        !.written = IF res.error = "" THEN @ \cup {call.file} ELSE @]
           /\ pc' = IF res.error # "" THEN "aborted"
                    ELSE IF k = Len(PageCalls) THEN "done" ELSE "write"
    /\ UNCHANGED <<now, read_prices_from_internet, data_json, data_json_15min,
                   file_1h, file_15min>>
    /\ UNCHANGED tb_vars

Next ==
    \/ StartRun
    \/ LoadCache
    \/ DecideFetch
    \/ FetchHourly
    \/ FetchQuarter
    \/ BuildTables
    \/ WritePage

Spec == Init /\ [][Next]_vars

---------------------------------------------------------------------------
(* Properties of a run of the script.                                      *)

RunEnded == pc \in {"done", "aborted"}

CacheFiles == {price_data_filename, price_data_filename_15min}

OutputFiles == {PageCalls[k].file : k \in 1..Len(PageCalls)}

\* The earliest timestamp of a payload.
EarliestTimestamp(prices) ==
    SeqMin([i \in 1..Len(prices) |-> Strptime(prices[i].startDate)])

\* C2 (as claimed): the run fetches exactly when a cache file is absent or
\* unreadable, or the local hour is at least 14 and the earliest timestamp of
\* the cached hourly payload is more than 20 hours before now (a payload
\* without a record has no timestamp).
C2_FetchesWhenEarliestIsOld ==
    RunEnded =>
        LET cache == run.cache_at_start
            claimed == \/ ~Readable(cache[1])
                       \/ ~Readable(cache[2])
                       \/ /\ LocalHour(now) >= 14
                          /\ cache[1].prices # <<>>
                          /\ now - EarliestTimestamp(cache[1].prices) > 20 * 60
        IN  run.gets.v1 > 0 <=> claimed

\* C2 (amended): the run sends the remote requests exactly when a cache file
\* is absent or unreadable, or the local hour is at least 14 and the
\* first-listed timestamp of the cached hourly payload is less than 20 hours
\* after now.  In every other case it sends no request and leaves both cache
\* files as they were; one such case is a cached hourly payload without a
\* record, on which a run at hour 14 or later ends with an IndexError.
C2_FetchesWhenHorizonIsShort ==
    (pc \notin {"load", "decide"}) =>
        LET cache == run.cache_at_start
            must == \/ ~Readable(cache[1])
                    \/ ~Readable(cache[2])
                    \/ /\ LocalHour(now) >= 14
                       /\ cache[1].prices # <<>>
                       /\ Strptime(cache[1].prices[1].startDate) < now + 20 * 60
            raises == /\ Readable(cache[1])
                      /\ Readable(cache[2])
                      /\ LocalHour(now) >= 14
                      /\ cache[1].prices = <<>>
        IN  /\ must => (run.gets.v1 > 0 \/ pc = "fetch_1h")
            /\ raises => (pc = "aborted" /\ error = "IndexError")
            /\ ~must => /\ run.gets = [v1 |-> 0, v2 |-> 0]
                        /\ pc \notin {"fetch_1h", "fetch_15min"}
                        /\ run.cache_written = {}
                        /\ <<file_1h, file_15min>> = cache

\* C2 witness: a run that found both cache files readable, the payload's
\* earliest record less than 20 hours old, and fetched all the same because
\* the payload ended less than 20 hours ahead.
C2_Witness ==
    /\ RunEnded
    /\ Readable(run.cache_at_start[1])
    /\ Readable(run.cache_at_start[2])
    /\ run.cache_at_start[1].prices # <<>>
    /\ now - EarliestTimestamp(run.cache_at_start[1].prices) <= 20 * 60
    /\ run.gets.v1 = 1
    /\ run.cache_written = CacheFiles

\* C3: a run that meets a fatal condition opens none of the eight output
\* files, so they stay as the run found them; a run writes all eight pages or
\* none; and no request is sent twice in a run.
C3_AllPagesOrNone ==
    /\ run.gets.v1 <= 1
    /\ run.gets.v2 <= 1
    /\ error # "" <=> pc = "aborted"
    /\ pc = "aborted" => /\ run.opened = {}
                         /\ run.written = {}
                         /\ html_files = run.html_at_start
    /\ pc = "done" => /\ run.written = OutputFiles
                      /\ Cardinality(run.written) = 8
    /\ RunEnded => run.written \in {{}, OutputFiles}

\* C3 witness: a later run that sent no request, found every cached record
\* in the past, and aborted in the first constructor call.
C3_Witness ==
    /\ pc = "aborted"
    /\ error = "ValueError"
    /\ run.number = 2
    /\ run.gets = [v1 |-> 0, v2 |-> 0]
    /\ run.opened = {}

\* C10 (as claimed): a run overwrites both cache files or neither, so at the
\* end of every run the two cache files come from the same fetch round.
C10_CachesFromSameRound ==
    RunEnded =>
        /\ run.cache_written \in {{}, CacheFiles}
        /\ run.source.h = run.source.q

---------------------------------------------------------------------------
(* Properties of a PriceTable.                                             *)

Constructed == tb_pc \in {"table", "page"}

\* The records the table shows, in the order of its rows.
ShownRecords(args) ==
    SelectSeq(SortedByStartDate(IF args.show_15_min_prices THEN args.price_data_15min
                                ELSE args.price_data),
              LAMBDA d : IsShown(d, args.show_also_history, args.now))

\* The calendar date of a record in Helsinki, as a day number.
LocalDate(datapoint) == AsTimezone(Strptime(datapoint.startDate)) \div 1440

\* The number of 15 min records the payload holds for the hour of a record.
SubRecordCount(datapoint, args) ==
    Cardinality({k \in 1..Len(args.price_data_15min) :
                    /\ args.price_data_15min[k].startDate.day = datapoint.startDate.day
                    /\ args.price_data_15min[k].startDate.hour = datapoint.startDate.hour})

\* The bar positions of a bar-graph cell: its bar glyphs, the one replaced
\* by the minimum marker included.
BarPositions(cell) == Cardinality({k \in 1..Len(cell) : cell[k] \in {"▉", "▜"}})

NegativeMarker == <<"◁">>

\* C1 (as claimed): every shown record with a price below zero has the
\* negative marker as its bar-graph cell, never a bar, never an empty bar.
C1_NegativePriceRendersMarker ==
    Constructed =>
        LET shown == ShownRecords(tb_args)
        IN  \A i \in 1..Len(shown) :
                shown[i].price < 0 => tb_self.bar_graph_column.data[i] = NegativeMarker

\* C5: a constructed table's four columns have the same data length, the
\* number of records that pass the time-window filter, so the assertion of
\* length() holds.
C5_ColumnLengthsMatch ==
    Constructed =>
        LET shown == ShownRecords(tb_args)
        IN  /\ data_length(tb_self.date_column) = Len(shown)
            /\ data_length(tb_self.hour_column) = Len(shown)
            /\ data_length(tb_self.price_column) = Len(shown)
            /\ data_length(tb_self.bar_graph_column) = Len(shown)
            /\ Len(shown) > 0
            /\ LengthError(tb_self) = ""

\* C5 witness: an hourly table with history whose rows mix a bar and the
\* negative marker.
C5_Witness ==
    /\ tb_pc = "table"
    /\ ~tb_args.show_15_min_prices
    /\ tb_args.show_also_history
    /\ length(tb_self) = 2
    /\ tb_self.bar_graph_column.data[1] = NegativeMarker
    /\ tb_self.bar_graph_column.data[2] # NegativeMarker

\* C8: a row shows its date exactly when it is the first row or its local
\* calendar date differs from the previous row's; otherwise the cell is blank.
C8_DateSuppression ==
    Constructed =>
        LET shown == ShownRecords(tb_args)
            dates == tb_self.date_column.data
            Fresh(i) == i = 1 \/ LocalDate(shown[i]) # LocalDate(shown[i - 1])
        IN  \A i \in 1..Len(dates) :
                /\ Fresh(i) => /\ dates[i] = DateString(Strptime(shown[i].startDate))
                               /\ dates[i] # ""
                /\ ~Fresh(i) => dates[i] = ""

\* C8 witness: a table whose rows span two local dates, with a blank date
\* cell after the first row of each.
C8_Witness ==
    /\ tb_pc = "table"
    /\ length(tb_self) >= 4
    /\ LET dates == tb_self.date_column.data
       IN  \E i \in 3..(Len(dates) - 1) :
            /\ dates[1] # ""
            /\ dates[2] = ""
            /\ dates[i] # ""
            /\ dates[i] # dates[1]
            /\ dates[i + 1] = ""

\* C9: within one table, among the rows rendered as bars, a price that is
\* not higher never has more bar positions, and a row's bar positions are
\* round(price * scale), an integer nearest to the product of the price in
\* hundredths and the scale, the scale being the target width over the
\* highest shown price, or 1 when that price is not above zero.  Which of
\* the two nearest integers a product halfway between them gets is left to
\* the floating-point product.
C9_BarWidthMonotone ==
    Constructed =>
        LET shown == ShownRecords(tb_args)
            bars == tb_self.bar_graph_column.data
            top == SeqMax([i \in 1..Len(shown) |-> shown[i].price])
            width == [i \in 1..Len(bars) |-> BarPositions(bars[i])]
            IsBar(i) == bars[i] # NegativeMarker
            num(i) == IF top > 0
                      THEN Round2(shown[i].price) * tb_args.target_bar_max_width * 10
                      ELSE Round2(shown[i].price)
            den == IF top > 0 THEN top ELSE 100
        IN  /\ \A i, j \in 1..Len(bars) :
                   (IsBar(i) /\ IsBar(j) /\ shown[i].price <= shown[j].price)
                       => width[i] <= width[j]
            /\ \A i \in 1..Len(bars) :
                   IsBar(i) => 2 * Abs(width[i] * den - num(i)) <= den

\* C9 witness: a table with two bars of different lengths, the longer one
\* for the higher price.
C9_Witness ==
    /\ tb_pc = "table"
    /\ LET shown == ShownRecords(tb_args)
           bars == tb_self.bar_graph_column.data
       IN  \E i, j \in 1..Len(bars) :
            /\ bars[i] # NegativeMarker
            /\ bars[j] # NegativeMarker
            /\ shown[i].price < shown[j].price
            /\ 0 < BarPositions(bars[i])
            /\ BarPositions(bars[i]) < BarPositions(bars[j])

\* C4 (as claimed): a get_html_page call leaves the table as it was: the
\* headers and data of all four columns, has_two_columns and max_price.
C4_PageCallLeavesTableUnchanged ==
    tb_pc = "page" => tb_self = tb_prev

\* C4 (amended): a get_html_page call changes nothing of the table but the
\* headers of the price and bar-graph columns, which it sets from the
\* orientation alone.
C4_PageCallSetsOnlyTwoHeaders ==
    tb_pc = "page" =>
        /\ tb_self.date_column = tb_prev.date_column
        /\ tb_self.hour_column = tb_prev.hour_column
        /\ tb_self.price_column.data = tb_prev.price_column.data
        /\ tb_self.bar_graph_column.data = tb_prev.bar_graph_column.data
        /\ tb_self.has_two_columns = tb_prev.has_two_columns
        /\ tb_self.max_price = tb_prev.max_price
        /\ tb_self = [tb_prev EXCEPT
                        !.price_column.header = tb_self.price_column.header,
                        !.bar_graph_column.header = tb_self.bar_graph_column.header]
        /\ tb_page.orientation = "vertical" =>
               /\ tb_self.price_column.header = "Hinta"
               /\ tb_self.bar_graph_column.header = "(snt/kWh, sis. alv)"
        /\ tb_page.orientation = "horizontal" =>
               /\ tb_self.price_column.header = ""
               /\ tb_self.bar_graph_column.header = "Hinta<br>(snt/kWh,<br>sis. alv)"

\* C4 witness: a horizontal page made from a freshly constructed table, whose
\* two headers the call has changed.
C4_Witness ==
    /\ tb_pc = "page"
    /\ tb_page.orientation = "horizontal"
    /\ tb_prev.price_column.header = "Hinta"
    /\ tb_self.price_column.header = ""
    /\ tb_self.bar_graph_column.header # tb_prev.bar_graph_column.header

\* C6: a table of n > 34 rows is laid out in ceil(n/2) table rows, the first
\* block holding indices 0..ceil(n/2)-1 and the second the remaining
\* floor(n/2) from index ceil(n/2) on; a table of n <= 34 rows is one block
\* of n table rows.  In either order of the blocks every index 0..n-1 is
\* rendered exactly once, and table row r holds index r and, in the two-block
\* layout, index r + ceil(n/2) where that index exists.
C6_TwoBlockSplit ==
    (tb_pc = "page" /\ tb_page.error = "") =>
        LET n == length(tb_self)
            rows == tb_page.page.table.rows
            two == n > TwoColumnThreshold
            half == (n + 1) \div 2
            swapped == two /\ tb_page.orientation # "vertical"
            First(r) == rows[r][IF swapped THEN 2 ELSE 1]
            Second(r) == rows[r][IF swapped THEN 1 ELSE 2]
        IN  /\ tb_self.has_two_columns = two
            /\ Len(rows) = IF two THEN half ELSE n
            /\ Cardinality({r \in 1..Len(rows) : Second(r).index # -1})
                   = IF two THEN n \div 2 ELSE 0
            /\ \A x \in 0..(n - 1) :
                   Cardinality({rc \in (1..Len(rows)) \X {1, 2} :
                                   rows[rc[1]][rc[2]].index = x}) = 1
            /\ \A r \in 1..Len(rows) :
                   /\ First(r) = DataCells(tb_self, r - 1)
                   /\ Second(r) = IF two /\ r - 1 + half < n
                                  THEN DataCells(tb_self, r - 1 + half)
                                  ELSE EmptyCells

\* C6 witness: a horizontal page of a 41-row table: 21 table rows, the second
\* block written first, its last group empty.
C6_Witness ==
    /\ tb_pc = "page"
    /\ tb_page.orientation = "horizontal"
    /\ length(tb_self) = 41
    /\ Len(tb_page.page.table.rows) = 21
    /\ tb_page.page.table.rows[1][1].index = 21
    /\ tb_page.page.table.rows[1][2].index = 0
    /\ tb_page.page.table.rows[21][1].index = -1
    /\ tb_page.page.table.rows[21][2].index = 20

\* The shown hourly rows whose bar width is not negative and whose hour does
\* not have four 15 min records.
MiscountedBarRows(args) ==
    LET shown == ShownRecords(args)
        scale == BarWidthPerPrice(args.target_bar_max_width,
                                  SeqMax([i \in 1..Len(shown) |-> shown[i].price]))
    IN  {i \in 1..Len(shown) :
            /\ PriceBarWidth(shown[i].price, scale) >= 0
            /\ SubRecordCount(shown[i], args) # SubPricesPerHour}

MiscountedRows(args) ==
    LET shown == ShownRecords(args)
    IN  {i \in 1..Len(shown) : SubRecordCount(shown[i], args) # SubPricesPerHour}

\* C7 (as claimed): building an hourly table aborts whenever a shown row,
\* whatever its price, has a number of 15 min records other than 4.
C7_AnyMiscountAborts ==
    (tb_pc # "args" /\ ~tb_args.show_15_min_prices) =>
        (MiscountedRows(tb_args) # {} => tb_self.error # "")

\* C7 (amended): building an hourly table aborts whenever a shown row whose
\* bar width round(price * scale) is not negative has a number of 15 min
\* records other than 4: with the data-consistency assertion, unless the
\* overlay of an earlier row has already raised IndexError.  The assertion is
\* raised for such rows only; rows rendered as the negative marker are not
\* checked.
C7_BarRowMiscountAborts ==
    (tb_pc # "args" /\ ~tb_args.show_15_min_prices) =>
        /\ MiscountedBarRows(tb_args) # {}
               => tb_self.error \in {"AssertionError", "IndexError"}
        /\ tb_self.error = "AssertionError" => MiscountedBarRows(tb_args) # {}

\* C7 witness: an hourly table whose construction raised the assertion for a
\* second shown row, after a first row that passed.
C7_Witness ==
    /\ tb_pc = "raised"
    /\ ~tb_args.show_15_min_prices
    /\ tb_self.error = "AssertionError"
    /\ MiscountedBarRows(tb_args) = {2}

\* The scale of the table built from args: target width over the highest
\* shown price, 1 when that price is not above zero.
ScaleOf(args) ==
    LET shown == ShownRecords(args)
    IN  BarWidthPerPrice(args.target_bar_max_width,
                         SeqMax([i \in 1..Len(shown) |-> shown[i].price]))

\* The places (counted from 0) of the minimum marker in a bar-graph cell.
MinMarkerPlaces(cell) == {k - 1 : k \in {j \in 1..Len(cell) : cell[j] = "▜"}}

\* C11 (as claimed): when at least one record passes the time-window filter
\* and every shown hour has exactly four 15 min records, building the hourly
\* table completes without error whatever the hourly price and the
\* sub-prices are, and a minimum marker, where placed, sits at index
\* round(min_sub_price * scale) with 0 <= index < bar length.
C11_HourlyBuildCompletes ==
    (tb_pc # "args" /\ ~tb_args.show_15_min_prices) =>
        LET shown == ShownRecords(tb_args)
            scale == ScaleOf(tb_args)
        IN  (Len(shown) > 0 /\ MiscountedRows(tb_args) = {}) =>
                /\ tb_self.error = ""
                /\ tb_pc \in {"table", "page"}
                /\ \A i \in 1..Len(shown) :
                       \A at \in MinMarkerPlaces(tb_self.bar_graph_column.data[i]) :
                           /\ at = ScaledRound(
                                      SeqMin(PricepointsForHour(shown[i],
                                                                tb_args.price_data_15min)),
                                      scale)
                           /\ 0 <= at
                           /\ at < PriceBarWidth(shown[i].price, scale)

=============================================================================
